---- MODULE Spec2Model ----
\* Model of the ScreenPilot state machine (clerk/gui_automation/ui_state_machine/
\* state_machine.py) and of the gui_automation device wrapper
\* (clerk/gui_automation/decorators/gui_automation.py).
EXTENDS Integers, Sequences, FiniteSets, TLC

VARIABLES
    nodes,                  \* _graph nodes: name -> [cls, start_allowed, end_allowed]
    edges,                  \* _graph edges in insertion order: [u, v, func, mode, cond]
    pc,                     \* position of the run() call / of the harness
    ai_recovery, ai_recovery_agent_factory, ai_recovery_attempts,
    tolerate_unplanned_transitions, tolerate_repeat_transitions, tolerate_repeat_states,
    acted_since_state_eval, ai_recovery_agent, latest_feedback,
    current_state, exit_reason, final_state, mode, next_target_state,
    runtime_error_details, state_history, transition_history,
    exc,                    \* exception in flight in run() ("none": none)
    rec_scenario, rec_attempts, attempts_made, rec_ret,   \* _attempt_ai_recovery frame
    rec_action,             \* the action received in this attempt, not yet handled
    enable_force_close_app_process, process_name,
    guard_eval,             \* guarded functions whose condition held at the last
                            \* selection
    force_close,            \* the last scan force-closed the application
                            \* ("closed"), tried and failed ("failed"), or did
                            \* neither ("none")
    handled,                \* the action the last RecoveryHandle step handled
    runs,                   \* number of run() calls started
    classified, executed,   \* per-run logs: classifier results, transitions executed
    handled_runtime_error,  \* the wrapper caught a RuntimeError in this run
    scenario_env,           \* so far in this run: the classifier answered, every
                            \* transition returned, the goal hook raised the success
                            \* signal exactly at End
    invoked,                \* scenarios _attempt_ai_recovery was called with in this run
    regs,                   \* number of registration calls made
    reg_error,              \* the last registration call raised
    reg_undefined,          \* the last call was register_transition naming a state
                            \* that is not a node of the graph
    wpc, retries, alloc_calls, sleeps, devices_held, dealloc_attempts,
    reserve_client, force_deallocate, func_invoked, wexc, max_tries, wcalls,
    global_ws,              \* a websocket connection is held by the wrapper module
    ws_pc,                  \* position of the perform_action call
    ws_remote,              \* messages the remote agent will still send, in order
    ws_inbox,               \* messages delivered on the connection, not yet received
    ws_sent, ws_awaits,     \* this call: requests sent, receives awaited
    ws_timeouts,            \* this call: receives that timed out
    ws_ack,                 \* this call: the acknowledgement received ("none": none)
    ws_ret,                 \* outcome of _perform_action_ws ("none": not ended)
    act_ret,                \* outcome of perform_action ("none": not ended)
    ws_calls,               \* number of _perform_action_ws calls started
    ws_kind,                \* the call was made by perform_action ("action") or by
                            \* get_screen ("screen")
    ws_msg,                 \* the text of the RuntimeError of _perform_action_ws
    ws_cause,               \* what ended the handshake of this call ("none": nothing yet)
    ws_seen,                \* the failures the callers have been given so far
    ws_tags,                \* for each message of ws_inbox \o ws_remote, the call
                            \* whose request it answers
    ws_origin,              \* the calls whose messages this call has received
    ws_in_flight            \* requests sent whose handshake is not resolved

graphVars == <<nodes, edges>>
configVars == <<ai_recovery, ai_recovery_agent_factory, ai_recovery_attempts,
                tolerate_unplanned_transitions, tolerate_repeat_transitions,
                tolerate_repeat_states, enable_force_close_app_process, process_name>>
runVars == <<acted_since_state_eval, ai_recovery_agent, latest_feedback, current_state,
             exit_reason, final_state, mode, next_target_state, runtime_error_details,
             state_history, transition_history, exc>>
recVars == <<rec_scenario, rec_attempts, attempts_made, rec_ret, rec_action>>
ghostVars == <<guard_eval, force_close, handled>>
logVars == <<runs, classified, executed, handled_runtime_error, invoked,
             scenario_env>>
regVars == <<regs, reg_error, reg_undefined>>
wrapVars == <<wpc, retries, alloc_calls, sleeps, devices_held, dealloc_attempts,
              reserve_client, force_deallocate, func_invoked, wexc, max_tries, wcalls>>
chanVars == <<global_ws, ws_pc, ws_remote, ws_inbox, ws_sent, ws_awaits, ws_timeouts,
              ws_ack, ws_ret, act_ret, ws_calls, ws_kind, ws_msg, ws_cause, ws_seen,
              ws_tags, ws_origin, ws_in_flight>>
vars == <<graphVars, pc, configVars, runVars, recVars, logVars, regVars, wrapVars,
          chanVars, ghostVars>>

\* ---------------------------------------------------------------- bounds
MaxTol == 0
MaxRuns == 2
MaxRegs == 4
MaxAttempts == 1
MaxTriesBound == 2
MaxHist == 4
MaxScanTol == 2
MaxCalls == 2
MaxActions == 2
MaxSelTol == 2
MaxCntTol == 3

\* ---------------------------------------------------------------- constants
HistoryMaxLen == 25
WrapperRecoveryAttempts == 5

StateIds == {"Start", "Middle", "End"}
ErrorState == "Error"
\* The answers of the classifier: one of the possible_states it is given (the
\* registered states), or the reserved name.
ClassifierOutputs ==
    {n \in StateIds \cap DOMAIN nodes : nodes[n].cls} \cup {ErrorState}
Modes == {"planned", "rollback"}

\* ---------------------------------------------------------------- graph
SameKey(e, f) == e.func = f.func /\ e.u = f.u /\ e.v = f.v /\ e.mode = f.mode

\* MultiDiGraph.add_node: creates the node or updates its attributes.
AddNode(ns, id, sa, ea) ==
    [n \in DOMAIN ns \cup {id} |->
        IF n = id THEN [cls |-> TRUE, start_allowed |-> sa, end_allowed |-> ea]
        ELSE ns[n]]

\* Nodes created implicitly by add_edge carry no attributes.
ImplicitNodes(ns, ids) ==
    [n \in DOMAIN ns \cup ids |->
        IF n \in DOMAIN ns THEN ns[n]
        ELSE [cls |-> FALSE, start_allowed |-> FALSE, end_allowed |-> FALSE]]

AddEdgeParallel(es, e) == Append(es, e)

\* MultiDiGraph.add_edge with an explicit key: a new edge, or new data on the
\* edge that already has this key.
AddEdge(es, e) ==
    IF \E i \in 1..Len(es) : SameKey(es[i], e)
    THEN [i \in 1..Len(es) |-> IF SameKey(es[i], e) THEN e ELSE es[i]]
    ELSE Append(es, e)

\* Position of the first edge u -> w in insertion order: the rank of neighbour w
\* in the adjacency of u.
NbrRank(es, i) ==
    CHOOSE j \in 1..i : /\ es[j].u = es[i].u /\ es[j].v = es[i].v
                        /\ \A k \in 1..(j - 1) : ~(es[k].u = es[i].u /\ es[k].v = es[i].v)

\* out_edges(u) iterates neighbour by neighbour, keys in insertion order.
EdgeBefore(es, i, j) ==
    \/ NbrRank(es, i) < NbrRank(es, j)
    \/ NbrRank(es, i) = NbrRank(es, j) /\ i < j

OutEdgeIdx(es, u) == {i \in 1..Len(es) : es[i].u = u}

\* ScreenPilot.register_state
RegisterStateG(g, id, sa, ea) ==
    [nodes |-> AddNode(g.nodes, id, sa, ea), edges |-> g.edges]

RegistrationConflictBothUnguarded(es, from, m, cond) ==
    \E i \in OutEdgeIdx(es, from) : es[i].mode = m /\ (~es[i].cond /\ ~cond)

\* The duplicate check of register_transition.
RegistrationConflict(es, from, m, cond) ==
    \E i \in OutEdgeIdx(es, from) : es[i].mode = m /\ (~es[i].cond \/ ~cond)

\* ScreenPilot.register_transition (the decorator applied to function func)
RegisterTransitionG(g, from, to, m, cond, func) ==
    IF RegistrationConflict(g.edges, from, m, cond) THEN g
    ELSE IF from \in DOMAIN g.nodes /\ to \in DOMAIN g.nodes
         THEN [nodes |-> g.nodes,
               edges |-> AddEdge(g.edges, [u |-> from, v |-> to, func |-> func,
                                           mode |-> m, cond |-> cond])]
         ELSE g

NoNodes == [n \in {} |-> FALSE]

EmptyGraph == [nodes |-> NoNodes, edges |-> <<>>]

ThreeStates ==
    RegisterStateG(RegisterStateG(RegisterStateG(EmptyGraph,
        "Start", TRUE, FALSE), "Middle", FALSE, FALSE), "End", FALSE, TRUE)

\* Start -> Middle -> End, planned only.
LinearGraph ==
    RegisterTransitionG(RegisterTransitionG(ThreeStates,
        "Start", "Middle", "planned", FALSE, "t1"),
        "Middle", "End", "planned", FALSE, "t2")

\* The linear graph plus a planned loop edge and rollback edges.
RollbackGraph ==
    RegisterTransitionG(RegisterTransitionG(RegisterTransitionG(LinearGraph,
        "End", "Start", "planned", FALSE, "t3"),
        "Middle", "Start", "rollback", FALSE, "rb1"),
        "Start", "Start", "rollback", FALSE, "rb2")

Graphs == {LinearGraph, RollbackGraph}

\* The linear graph with a state class registered under the reserved name.
ErrorGraph ==
    [nodes |-> RegisterStateG(LinearGraph, ErrorState, FALSE, FALSE).nodes,
     edges |-> LinearGraph.edges]

\* One registered state with a planned edge to itself.
LoopGraph ==
    RegisterTransitionG(RegisterStateG(EmptyGraph, "Start", TRUE, FALSE),
        "Start", "Start", "planned", FALSE, "t1")

\* Three guarded planned edges leave Start: to Start, to End and to Middle; a
\* rollback edge leads from Middle back to Start.
GuardedGraph ==
    RegisterTransitionG(RegisterTransitionG(RegisterTransitionG(RegisterTransitionG(
    RegisterTransitionG(ThreeStates,
        "Start", "Start", "planned", TRUE, "g0"),
        "Start", "End", "planned", TRUE, "g1"),
        "Start", "Middle", "planned", TRUE, "g2"),
        "Middle", "End", "planned", FALSE, "t2"),
        "Middle", "Start", "rollback", FALSE, "rb1")

\* ---------------------------------------------------------------- histories
\* deque(maxlen=25).append
AppendHistory(h, x) ==
    IF Len(h) < HistoryMaxLen THEN Append(h, x) ELSE Append(Tail(h), x)

\* deque.count
CountIn(h, x) == Cardinality({i \in 1..Len(h) : h[i] = x})

FindUnplannedTransitionsAnyMode(es) ==
    {i \in 1..Len(es) :
        /\ es[i].mode = "actual"
        /\ ~\E j \in 1..Len(es) :
              es[j].mode # "actual" /\ es[j].u = es[i].u /\ es[j].v = es[i].v}

\* _find_unplanned_transitions: the actual edges without a planned edge between
\* the same two states (one list entry per actual edge).
FindUnplannedTransitions(es) ==
    {i \in 1..Len(es) :
        /\ es[i].mode = "actual"
        /\ ~\E j \in 1..Len(es) :
              es[j].mode = "planned" /\ es[j].u = es[i].u /\ es[j].v = es[i].v}

FindRepeatedTransitionsDistinct(h) ==
    {i \in 1..Len(h) : CountIn(h, h[i]) > 1 /\ \A j \in 1..(i - 1) : h[j] # h[i]}

\* _find_repeated_transitions: one list entry per history item whose count is > 1.
FindRepeatedTransitions(h) == {i \in 1..Len(h) : CountIn(h, h[i]) > 1}

FindRepeatedStatesOffByOne(h) == {i \in 1..Len(h) : CountIn(h, h[i]) >= 1}

\* _find_repeated_states
FindRepeatedStates(h) == {i \in 1..Len(h) : CountIn(h, h[i]) > 1}

AntiPatternIgnoringStates(es, th, sh, tu, tt, ts) ==
    IF Cardinality(FindUnplannedTransitions(es)) > tu THEN "UnplannedTransitionsError"
    ELSE IF Cardinality(FindRepeatedTransitions(th)) > tt + 1 THEN "RepeatTransitions"
    ELSE "none"

\* The three threshold tests of _find_anti_patterns, in the order of the code.
AntiPattern(es, th, sh, tu, tt, ts) ==
    IF Cardinality(FindUnplannedTransitions(es)) > tu THEN "UnplannedTransitionsError"
    ELSE IF Cardinality(FindRepeatedTransitions(th)) > tt + 1 THEN "RepeatTransitions"
    ELSE IF Cardinality(FindRepeatedStates(sh)) > ts THEN "RepeatStatesError"
    ELSE "none"

\* ---------------------------------------------------------------- run()
OutcomeSignals == {"BusinessException", "SuccessfulCompletion"}

\* run() entry: default goal function, _act_on_start, first loop test.
Run ==
    /\ pc = "idle"
    /\ runs < MaxRuns
    /\ runs' = runs + 1
    /\ exit_reason' = "none"
    /\ current_state' = "none"
    /\ final_state' = "none"
    /\ exc' = "none"
    /\ classified' = <<>>
    /\ executed' = <<>>
    /\ handled_runtime_error' = FALSE
    /\ invoked' = {}
    /\ scenario_env' = TRUE
    /\ pc' = "scan"
    /\ UNCHANGED <<graphVars, configVars, recVars, regVars, wrapVars, chanVars, ghostVars,
                   acted_since_state_eval, ai_recovery_agent, latest_feedback, mode,
                   next_target_state, runtime_error_details, state_history,
                   transition_history>>

ForceClosesAlways(a, enabled, name) == enabled /\ name

\* The test before ForceCloseApplication(process_name).do() in _find_anti_patterns.
ForceCloses(a, enabled, name) == a = "RepeatStatesError" /\ enabled /\ name

\* _find_anti_patterns at the top of a loop iteration; force_close records
\* whether the application was force-closed ("closed"), the attempt raised and
\* was logged ("failed"), or none was made.
FindAntiPatterns ==
    /\ pc = "scan"
    /\ LET a == AntiPattern(edges, transition_history, state_history,
                            tolerate_unplanned_transitions, tolerate_repeat_transitions,
                            tolerate_repeat_states)
       IN IF a = "none"
          THEN /\ pc' = "eval"
               /\ force_close' = "none"
               /\ UNCHANGED <<exit_reason, exc>>
          ELSE /\ exit_reason' = a
               /\ exc' = a
               /\ pc' = "except"
               /\ IF ForceCloses(a, enable_force_close_app_process, process_name)
                  THEN force_close' \in {"closed", "failed"}
                  ELSE force_close' = "none"
    /\ UNCHANGED <<graphVars, configVars, recVars, logVars, regVars, wrapVars, chanVars,
                   guard_eval, handled,
                   acted_since_state_eval, ai_recovery_agent, latest_feedback,
                   current_state, final_state, mode, next_target_state,
                   runtime_error_details, state_history, transition_history>>

ActualEdgeReversed(sh, th, s) ==
    [u |-> s, v |-> sh[Len(sh) - 1], func |-> th[Len(th)], mode |-> "actual",
     cond |-> FALSE]

\* The 'actual' edge _evaluate_state records after classifying s.
ActualEdge(sh, th, s) ==
    [u |-> sh[Len(sh) - 1], v |-> s, func |-> th[Len(th)], mode |-> "actual",
     cond |-> FALSE]

RecordsActualEdge(sh, th) == Len(sh) > 1 /\ Len(th) > 0

\* Effect of _evaluate_state when the classifier answers s (the screenshot is
\* taken inside try/except and cannot change the outcome).
EvaluateStateEffect(s) ==
    LET sh == AppendHistory(state_history, s) IN
    /\ current_state' = s
    /\ state_history' = sh
    /\ acted_since_state_eval' = FALSE
    /\ classified' = Append(classified, s)
    /\ IF RecordsActualEdge(sh, transition_history)
       THEN LET e == ActualEdge(sh, transition_history, s) IN
            /\ edges' = AddEdge(edges, e)
            /\ nodes' = ImplicitNodes(nodes, {e.u, e.v})
       ELSE UNCHANGED <<nodes, edges>>

\* possible_states reads the "cls" attribute of every node of the graph.
CatalogueReadable == \A n \in DOMAIN nodes : nodes[n].cls

\* _evaluate_state in the loop: KeyError from the catalogue, an exception of the
\* classifier, or a classification.
EvaluateState ==
    /\ pc = "eval"
    /\ \/ /\ ~CatalogueReadable
          /\ exc' = "KeyError"
          /\ pc' = "except"
          /\ scenario_env' = FALSE
          /\ UNCHANGED <<nodes, edges, current_state, state_history,
                         acted_since_state_eval, classified>>
       \/ /\ CatalogueReadable
          /\ exc' = "ClassifierError"
          /\ pc' = "except"
          /\ scenario_env' = FALSE
          /\ UNCHANGED <<nodes, edges, current_state, state_history,
                         acted_since_state_eval, classified>>
       \/ /\ CatalogueReadable
          /\ \E s \in ClassifierOutputs : EvaluateStateEffect(s)
          /\ pc' = "goal"
          /\ UNCHANGED <<exc, scenario_env>>
    /\ UNCHANGED <<configVars, recVars, regVars, wrapVars, chanVars, ghostVars, runs, executed,
                   handled_runtime_error, invoked, ai_recovery_agent, latest_feedback,
                   exit_reason, final_state, mode, next_target_state,
                   runtime_error_details, transition_history>>

\* _evaluate_goal_function: the hook returns, or raises a signal.
EvaluateGoal ==
    /\ pc = "goal"
    /\ \/ /\ pc' = "errcheck"
          /\ scenario_env' = (scenario_env /\ current_state # "End")
          /\ UNCHANGED exc
       \/ /\ \E sig \in OutcomeSignals :
                /\ exc' = sig
                /\ scenario_env' = (scenario_env /\ current_state = "End"
                                     /\ sig = "SuccessfulCompletion")
          /\ pc' = "except"
    /\ UNCHANGED <<graphVars, configVars, recVars, regVars, wrapVars, chanVars, ghostVars, runs,
                   classified,
                   executed, handled_runtime_error, invoked,
                   acted_since_state_eval, ai_recovery_agent, latest_feedback,
                   current_state, exit_reason, final_state, mode, next_target_state,
                   runtime_error_details, state_history, transition_history>>

\* ---------------------------------------------------------------- recovery
\* No action has been requested in the current pass of the loop.
NoRequest == [kind |-> "none", interrupt |-> FALSE]

\* Entry of _attempt_ai_recovery: the agent is created when none is held and a
\* factory is configured; ret names the caller to return to.
StartRecovery(scenario, attempts, ret) ==
    /\ rec_scenario' = scenario
    /\ rec_attempts' = attempts
    /\ rec_ret' = ret
    /\ attempts_made' = 0
    /\ rec_action' = NoRequest
    /\ invoked' = invoked \cup {scenario}
    /\ ai_recovery_agent' = (ai_recovery_agent \/ ai_recovery_agent_factory)
    /\ pc' = "recovery"

LeaveRecoveryFrame ==
    /\ rec_scenario' = "none"
    /\ rec_attempts' = 0
    /\ rec_ret' = "none"
    /\ attempts_made' = 0

\* _attempt_ai_recovery returns to its caller: the run loop (continue), the
\* transition wrapper (which then sets the mode and returns to the loop), or
\* _ensure_allowed_end_state.
RecoveryReturns ==
    /\ LeaveRecoveryFrame
    /\ pc' = IF rec_ret = "exit" THEN "cleanup" ELSE "scan"
    /\ mode' = IF rec_ret = "wrapper" THEN "rollback" ELSE mode
    /\ UNCHANGED exc

\* An exception leaves _attempt_ai_recovery: to the except clauses of run(), or,
\* from the end-state check, through _act_on_completed.
RecoveryRaises(e) ==
    /\ LeaveRecoveryFrame
    /\ pc' = IF rec_ret = "exit" THEN "cleanup" ELSE "except"
    /\ exc' = e
    /\ UNCHANGED mode

\* What the handling of a requested action comes to: the sentinel, an action that
\* ran, the three failures answered with feedback, any other exception.
AttemptKinds ==
    {"NoAction", "executed", "malformed", "target_not_found", "action_failed",
     "unexpected"}

FeedbackKinds == {"malformed", "target_not_found", "action_failed"}

\* The argument of add_feedback: str(e) for a malformed action, a fixed hint for
\* RuntimeError and for PerformActionException.
FeedbackOf(kind) ==
    CASE kind = "malformed" -> "error_text"
      [] kind = "target_not_found" -> "hint_target"
      [] kind = "action_failed" -> "hint_action"
      [] OTHER -> "none"

\* reset_feedback after the while loop: the agent clears its feedback, or the
\* call raises (CourseCorrectorV1 assigns an attribute its model does not declare).
ResetFeedback ==
    \/ /\ latest_feedback' = "none"
       /\ RecoveryReturns
    \/ /\ RecoveryRaises("ValueError")
       /\ UNCHANGED latest_feedback

AgentActions == [kind : AttemptKinds, interrupt : BOOLEAN]

AttemptsLeftInclusive(made, limit) == made <= limit

\* The test of the while loop.
AttemptsLeft(made, limit) == made < limit

FinallyRaisesOnlyOnInterrupt(hasAction, interrupt) == hasAction /\ interrupt

\* The finally block raises CourseCorrectionImpossible: no action object, or
\* an action with interrupt_process set.
FinallyRaises(hasAction, interrupt) == ~hasAction \/ interrupt

InterruptsProcessUnlessSentinel(a) == a.interrupt /\ a.kind # "NoAction"

\* The finally block raises for the action a received.
InterruptsProcess(a) == FinallyRaises(TRUE, a.interrupt)

EvaluatedUnlessInterrupt(a) == a.kind # "NoAction" /\ ~a.interrupt

\* eval(action.action_string) is reached for every action string that does not
\* start with the sentinel; interrupt_process is not read before the finally
\* block.
Evaluated(a) == a.kind # "NoAction"

\* The loop body of _attempt_ai_recovery for the action a received in the pass
\* that brings the attempt count to made: the sentinel test, eval of the action
\* string with its except clauses, the finally block, and after a break the
\* reset_feedback call. stored: add_feedback keeps the feedback (else it raises);
\* shot_ok: the screenshot of the finally block succeeds.
HandleAction(a, made) ==
    \E stored \in (IF a.kind \in FeedbackKinds THEN BOOLEAN ELSE {FALSE}),
       shot_ok \in (IF InterruptsProcess(a) THEN {TRUE} ELSE BOOLEAN) :
       LET fed == a.kind \in FeedbackKinds /\ stored
           fb == IF fed THEN FeedbackOf(a.kind) ELSE latest_feedback
       IN
       /\ acted_since_state_eval' =
              (acted_since_state_eval \/ (Evaluated(a) /\ a.kind = "executed"))
       /\ rec_action' = NoRequest
       /\ IF InterruptsProcess(a)
          THEN /\ RecoveryRaises("CourseCorrectionImpossible")
               /\ latest_feedback' = fb
          ELSE IF ~shot_ok
          THEN /\ RecoveryRaises("ScreenshotError")
               /\ latest_feedback' = fb
          ELSE IF a.kind = "NoAction"
          THEN /\ RecoveryReturns
               /\ UNCHANGED latest_feedback
          ELSE IF fed
          THEN /\ latest_feedback' = fb
               /\ attempts_made' = made
               /\ UNCHANGED <<rec_scenario, rec_attempts, rec_ret, pc, mode, exc>>
          ELSE ResetFeedback

\* _attempt_ai_recovery without an agent, and the exits of its while loop that
\* involve no action: the attempts are used up, or the request to the agent
\* (get_corrective_actions()[0]) raised or returned nothing.
RecoveryWithoutAction ==
    \/ /\ ~ai_recovery_agent
       /\ RecoveryReturns
       /\ UNCHANGED latest_feedback
    \/ /\ ai_recovery_agent
       /\ ~AttemptsLeft(attempts_made, rec_attempts)
       /\ ResetFeedback
    \/ /\ ai_recovery_agent
       /\ AttemptsLeft(attempts_made, rec_attempts)
       /\ IF FinallyRaises(FALSE, FALSE)
          THEN /\ RecoveryRaises("CourseCorrectionImpossible")
               /\ UNCHANGED latest_feedback
          ELSE ResetFeedback

\* One pass of the while loop of _attempt_ai_recovery (or its exit).
RecoveryStep ==
    /\ pc = "recovery"
    /\ rec_action = NoRequest
    /\ \/ /\ RecoveryWithoutAction
          /\ UNCHANGED <<rec_action, acted_since_state_eval>>
       \/ /\ ai_recovery_agent
          /\ AttemptsLeft(attempts_made, rec_attempts)
          /\ \E a \in AgentActions : HandleAction(a, attempts_made + 1)
    /\ UNCHANGED <<graphVars, configVars, regVars, wrapVars, chanVars, ghostVars, runs,
                   classified, executed, handled_runtime_error, invoked, scenario_env,
                   ai_recovery_agent, current_state, exit_reason, final_state,
                   next_target_state, runtime_error_details, state_history,
                   transition_history>>

\* The same pass in two steps. First the head of the loop and the request to the
\* agent.
RecoveryRequest ==
    /\ pc = "recovery"
    /\ rec_action = NoRequest
    /\ \/ /\ RecoveryWithoutAction
          /\ UNCHANGED rec_action
       \/ /\ ai_recovery_agent
          /\ AttemptsLeft(attempts_made, rec_attempts)
          /\ \E a \in AgentActions : rec_action' = a
          /\ attempts_made' = attempts_made + 1
          /\ UNCHANGED <<rec_scenario, rec_attempts, rec_ret, pc, mode, exc,
                         latest_feedback>>
    /\ UNCHANGED <<graphVars, configVars, regVars, wrapVars, chanVars, ghostVars, runs,
                   classified, executed, handled_runtime_error, invoked, scenario_env,
                   ai_recovery_agent, acted_since_state_eval, current_state,
                   exit_reason, final_state, next_target_state, runtime_error_details,
                   state_history, transition_history>>

\* Then the rest of the loop body for the action received.
RecoveryHandle ==
    /\ pc = "recovery"
    /\ rec_action # NoRequest
    /\ HandleAction(rec_action, attempts_made)
    /\ handled' = rec_action
    /\ UNCHANGED <<graphVars, configVars, regVars, wrapVars, chanVars, guard_eval,
                   force_close, runs,
                   classified, executed, handled_runtime_error, invoked, scenario_env,
                   ai_recovery_agent, current_state, exit_reason, final_state,
                   next_target_state, runtime_error_details, state_history,
                   transition_history>>

\* ---------------------------------------------------------------- run loop, continued
NeedsRecoveryInverted(s, enabled) == s = ErrorState /\ ~enabled

\* The test of step 4 of the loop.
NeedsRecovery(s, enabled) == s = ErrorState /\ enabled

\* Step 4 of the loop: recovery on the reserved state, else drop the agent.
ErrorStateHandling ==
    /\ pc = "errcheck"
    /\ IF NeedsRecovery(current_state, ai_recovery)
       THEN /\ StartRecovery("unexpected_state", ai_recovery_attempts, "loop")
            /\ UNCHANGED <<exc, latest_feedback>>
       ELSE /\ ai_recovery_agent' = FALSE
            /\ latest_feedback' = "none"
            /\ pc' = "select"
            /\ UNCHANGED <<recVars, invoked, exc>>
    /\ UNCHANGED <<graphVars, configVars, regVars, wrapVars, chanVars, ghostVars, runs,
                   classified, executed,
                   handled_runtime_error, scenario_env, acted_since_state_eval,
                   current_state, exit_reason, final_state, mode, next_target_state,
                   runtime_error_details, state_history, transition_history>>

CandidatesAnyMode(es, s, m, trueGuards) ==
    {i \in OutEdgeIdx(es, s) : ~es[i].cond \/ es[i].func \in trueGuards}

\* Edges _get_next_transition may return, given the guarded functions whose
\* condition evaluates to true.
Candidates(es, s, m, trueGuards) ==
    {i \in OutEdgeIdx(es, s) :
        es[i].mode = m /\ (~es[i].cond \/ es[i].func \in trueGuards)}

LastCandidate(es, cands) ==
    CHOOSE i \in cands : \A j \in cands \ {i} : EdgeBefore(es, j, i)

\* The first of them in the order out_edges lists the edges of the state.
FirstCandidate(es, cands) ==
    CHOOSE i \in cands : \A j \in cands \ {i} : EdgeBefore(es, i, j)

GuardedFuncs(es) == {es[i].func : i \in {j \in 1..Len(es) : es[j].cond}}

\* The membership test on the graph, _get_next_transition, _log_transition.
SelectTransition ==
    /\ pc = "select"
    /\ \E trueGuards \in SUBSET GuardedFuncs(edges) :
         LET cands == Candidates(edges, current_state, mode, trueGuards) IN
         IF current_state \notin DOMAIN nodes \/ cands = {}
         THEN /\ guard_eval' = trueGuards
              /\ exc' = "ValueError"
              /\ pc' = "except"
              /\ UNCHANGED <<next_target_state, transition_history,
                             acted_since_state_eval>>
         ELSE LET e == edges[FirstCandidate(edges, cands)] IN
              /\ guard_eval' = trueGuards
              /\ next_target_state' = e.v
              /\ transition_history' = AppendHistory(transition_history, e.func)
              /\ acted_since_state_eval' = TRUE
              /\ pc' = "exec"
              /\ UNCHANGED exc
    /\ UNCHANGED <<graphVars, configVars, recVars, logVars, regVars, wrapVars, chanVars,
                   force_close, handled,
                   ai_recovery_agent, latest_feedback, current_state, exit_reason,
                   final_state, mode, runtime_error_details, state_history>>

\* Failures of a UI action inside a transition: no acknowledgement in time, no
\* coordinates for the target, the remote agent reporting the action as failed.
TransientFailures == {"AckTimeout", "TargetNotFound", "RemoteFailed"}

\* The exception class each of them is raised as.
ExceptionOf(f) == IF f = "RemoteFailed" THEN "PerformActionException" ELSE "RuntimeError"

TransitionOutcomes ==
    {"ok", "BusinessException", "SuccessfulCompletion", "RollbackCompleted",
     "OtherException"} \cup {ExceptionOf(f) : f \in TransientFailures}

\* next_transition(**kwargs): the wrapper installed by register_transition.
ExecuteTransition ==
    /\ pc = "exec"
    /\ executed' = Append(executed, transition_history[Len(transition_history)])
    /\ \E o \in TransitionOutcomes, shot_ok \in BOOLEAN :
         /\ scenario_env' = (scenario_env /\ o = "ok")
         /\ CASE o = "ok" ->
                   /\ pc' = "scan"
                   /\ UNCHANGED <<exc, runtime_error_details, handled_runtime_error,
                                  recVars, invoked, ai_recovery_agent>>
              [] o = "RuntimeError" ->
                   /\ runtime_error_details' = TRUE
                   /\ handled_runtime_error' = TRUE
                   /\ IF shot_ok
                      THEN /\ StartRecovery("runtime_error", WrapperRecoveryAttempts,
                                            "wrapper")
                           /\ UNCHANGED exc
                      ELSE /\ exc' = "ScreenshotError"
                           /\ pc' = "except"
                           /\ UNCHANGED <<recVars, invoked, ai_recovery_agent>>
              [] o = "RollbackCompleted" ->
                   /\ exc' = IF runtime_error_details THEN "RollbackCompleted"
                             ELSE "TypeError"
                   /\ pc' = "except"
                   /\ UNCHANGED <<runtime_error_details, handled_runtime_error, recVars,
                                  invoked, ai_recovery_agent>>
              [] OTHER ->
                   /\ exc' = o
                   /\ pc' = "except"
                   /\ UNCHANGED <<runtime_error_details, handled_runtime_error, recVars,
                                  invoked, ai_recovery_agent>>
    /\ UNCHANGED <<graphVars, configVars, regVars, wrapVars, chanVars, ghostVars, runs,
                   classified,
                   acted_since_state_eval, latest_feedback, current_state, exit_reason,
                   final_state, mode, next_target_state, state_history,
                   transition_history>>

\* The except clauses of run(): an outcome signal becomes the exit reason, any
\* other exception stays in flight.
HandleException ==
    /\ pc = "except"
    /\ IF exc \in OutcomeSignals
       THEN /\ exit_reason' = exc
            /\ exc' = "none"
       ELSE UNCHANGED <<exit_reason, exc>>
    /\ pc' = "ensure"
    /\ UNCHANGED <<graphVars, configVars, recVars, logVars, regVars, wrapVars, chanVars, ghostVars,
                   acted_since_state_eval, ai_recovery_agent, latest_feedback,
                   current_state, final_state, mode, next_target_state,
                   runtime_error_details, state_history, transition_history>>

\* _ensure_allowed_end_state, first half: one more evaluation if an action
\* happened since the last one.
EnsureAllowedEndState ==
    /\ pc = "ensure"
    /\ IF ~acted_since_state_eval
       THEN /\ pc' = "endcheck"
            /\ UNCHANGED <<nodes, edges, current_state, state_history,
                           acted_since_state_eval, classified, exc, scenario_env>>
       ELSE \/ /\ ~CatalogueReadable
               /\ exc' = "KeyError"
               /\ pc' = "cleanup"
               /\ scenario_env' = FALSE
               /\ UNCHANGED <<nodes, edges, current_state, state_history,
                              acted_since_state_eval, classified>>
            \/ /\ CatalogueReadable
               /\ exc' = "ClassifierError"
               /\ pc' = "cleanup"
               /\ scenario_env' = FALSE
               /\ UNCHANGED <<nodes, edges, current_state, state_history,
                              acted_since_state_eval, classified>>
            \/ /\ CatalogueReadable
               /\ \E s \in ClassifierOutputs : EvaluateStateEffect(s)
               /\ pc' = "endcheck"
               /\ UNCHANGED <<exc, scenario_env>>
    /\ UNCHANGED <<configVars, recVars, regVars, wrapVars, chanVars, ghostVars, runs, executed,
                   handled_runtime_error, invoked, ai_recovery_agent, latest_feedback,
                   exit_reason, final_state, mode, next_target_state,
                   runtime_error_details, transition_history>>

EndStates(ns) == {n \in DOMAIN ns : ns[n].end_allowed}

NeedsExitRecoveryOnEndState(s, ns, enabled) == s \in EndStates(ns) /\ enabled

\* The test of _ensure_allowed_end_state before the recovery with scenario 'exit'.
NeedsExitRecovery(s, ns, enabled) == s \notin EndStates(ns) /\ enabled

\* _ensure_allowed_end_state, second half.
EndStateCheck ==
    /\ pc = "endcheck"
    /\ IF NeedsExitRecovery(current_state, nodes, ai_recovery)
       THEN StartRecovery("exit", ai_recovery_attempts, "exit")
       ELSE /\ pc' = "cleanup"
            /\ UNCHANGED <<recVars, invoked, ai_recovery_agent>>
    /\ UNCHANGED <<graphVars, configVars, regVars, wrapVars, chanVars, ghostVars, runs,
                   classified, executed,
                   handled_runtime_error, scenario_env, acted_since_state_eval,
                   latest_feedback,
                   current_state, exit_reason, final_state, mode, next_target_state,
                   runtime_error_details, state_history, transition_history, exc>>

RemoveActualEdgesKeepsAll(es) == es

RemoveActualEdges(es) == SelectSeq(es, LAMBDA e : e.mode # "actual")

RecordedFinalStateFromHistory(cur, sh) == IF sh = <<>> THEN cur ELSE sh[1]

\* cls._final_state = cls._current_state in the finally block of
\* _act_on_completed, before the histories are cleared.
RecordedFinalState(cur, sh) == cur

\* The finally block of _act_on_completed; run() then returns _exit_reason or
\* lets the exception in flight propagate.
Cleanup ==
    /\ pc = "cleanup"
    /\ final_state' = RecordedFinalState(current_state, state_history)
    /\ transition_history' = <<>>
    /\ state_history' = <<>>
    /\ edges' = RemoveActualEdges(edges)
    /\ mode' = "planned"
    /\ runtime_error_details' = FALSE
    /\ ai_recovery_agent' = FALSE
    /\ latest_feedback' = "none"
    /\ next_target_state' = "none"
    /\ pc' = "idle"
    /\ UNCHANGED <<nodes, configVars, recVars, logVars, regVars, wrapVars, chanVars, ghostVars,
                   acted_since_state_eval, current_state, exit_reason, exc>>

\* ---------------------------------------------------------------- registration
RegStateIds == {"Start", "Middle"}
RegEndpoints == {"Start", "Middle", "End"}
RegFuncs == {"t1", "t2"}

\* A call of register_state.
RegisterState ==
    /\ pc = "config"
    /\ regs < MaxRegs
    /\ \E id \in RegStateIds, sa \in BOOLEAN, ea \in BOOLEAN :
         nodes' = RegisterStateG([nodes |-> nodes, edges |-> edges], id, sa, ea).nodes
    /\ regs' = regs + 1
    /\ reg_error' = FALSE
    /\ reg_undefined' = FALSE
    /\ UNCHANGED <<edges, pc, configVars, runVars, recVars, logVars, wrapVars,
                   chanVars, ghostVars>>

\* A call of register_transition(from, to, mode, condition)(func).
RegisterTransition ==
    /\ pc = "config"
    /\ regs < MaxRegs
    /\ \E from \in RegEndpoints, to \in RegEndpoints, m \in Modes, cond \in BOOLEAN,
          func \in RegFuncs :
         /\ edges' = RegisterTransitionG([nodes |-> nodes, edges |-> edges],
                                         from, to, m, cond, func).edges
         /\ reg_error' = RegistrationConflict(edges, from, m, cond)
         /\ reg_undefined' = (from \notin DOMAIN nodes \/ to \notin DOMAIN nodes)
    /\ regs' = regs + 1
    /\ UNCHANGED <<nodes, pc, configVars, runVars, recVars, logVars, wrapVars,
                   chanVars, ghostVars>>

\* ---------------------------------------------------------------- gui_automation
RetriesExhaustedLate(r, maxTries) == r > maxTries

\* The retry budget test of _allocate_remote_device.
RetriesExhausted(r, maxTries) == r >= maxTries

ShouldDeallocateOnlyOnSuccess(reserve, force) == ~reserve /\ ~force

\* The test of the finally block of the wrapper.
ShouldDeallocate(reserve, force) == ~reserve \/ force

pilotVars == <<graphVars, pc, configVars, runVars, recVars, logVars, regVars,
               ghostVars>>

\* wrapper entry (one call of the decorated function)
WrapperCall ==
    /\ wpc = "ready"
    /\ wcalls < MaxCalls
    /\ wcalls' = wcalls + 1
    /\ func_invoked' = FALSE
    /\ devices_held' = 0
    /\ force_deallocate' = FALSE
    /\ retries' = 0
    /\ alloc_calls' = 0
    /\ sleeps' = 0
    /\ dealloc_attempts' = 0
    /\ wexc' = "none"
    /\ wpc' = "allocate"
    /\ UNCHANGED <<pilotVars, chanVars, reserve_client, max_tries>>

\* One pass of the while loop of _allocate_remote_device up to its sleep.
AllocateAttempt ==
    /\ wpc = "allocate"
    /\ alloc_calls' = alloc_calls + 1
    /\ \/ /\ devices_held' = devices_held + 1
          /\ wpc' = "connect"
          /\ UNCHANGED wexc
       \/ /\ IF RetriesExhausted(retries, max_tries)
             THEN wexc' = "ClientAvailabilityTimeout" /\ wpc' = "ready"
             ELSE wpc' = "sleep" /\ UNCHANGED wexc
          /\ UNCHANGED devices_held
       \/ /\ wexc' = "AllocationError"
          /\ wpc' = "ready"
          /\ UNCHANGED devices_held
    /\ UNCHANGED <<pilotVars, chanVars, retries, sleeps, dealloc_attempts, reserve_client,
                   force_deallocate, func_invoked, max_tries, wcalls>>

\* time.sleep(REMOTE_DEVICE_ALLOCATION_TIMEOUT); retries += 1
AllocateSleep ==
    /\ wpc = "sleep"
    /\ sleeps' = sleeps + 1
    /\ retries' = retries + 1
    /\ wpc' = "allocate"
    /\ UNCHANGED <<pilotVars, chanVars, alloc_calls, devices_held, dealloc_attempts,
                   reserve_client, force_deallocate, func_invoked, wexc, max_tries, wcalls>>

ConnectOutcomes == {"open", "WebSocketConnectionFailed", "ConnectError"}

\* connect_to_ws and the test of the connection state
Connect ==
    /\ wpc = "connect"
    /\ \E o \in ConnectOutcomes :
         IF o = "open"
         THEN wpc' = "call" /\ UNCHANGED <<wexc, force_deallocate>>
         ELSE wexc' = o /\ force_deallocate' = TRUE /\ wpc' = "finally"
    /\ UNCHANGED <<pilotVars, chanVars, retries, alloc_calls, sleeps, devices_held,
                   dealloc_attempts, reserve_client, func_invoked, max_tries, wcalls>>

FuncOutcomes == {"return", "FuncError", "KeyboardInterrupt"}

\* func(payload, *args, **kwargs) and the except clause of the wrapper
CallFunc ==
    /\ wpc = "call"
    /\ func_invoked' = TRUE
    /\ \E o \in FuncOutcomes :
         /\ wexc' = IF o = "return" THEN "none" ELSE o
         /\ force_deallocate' = (o = "FuncError")
    /\ wpc' = "finally"
    /\ UNCHANGED <<pilotVars, chanVars, retries, alloc_calls, sleeps, devices_held,
                   dealloc_attempts, reserve_client, max_tries, wcalls>>

\* The finally block of the wrapper: _deallocate_target unless reserved.
WrapperFinally ==
    /\ wpc = "finally"
    /\ IF ShouldDeallocate(reserve_client, force_deallocate)
       THEN /\ dealloc_attempts' = dealloc_attempts + 1
            /\ \/ devices_held' = devices_held - 1 /\ UNCHANGED wexc
               \/ wexc' = "DeallocationError" /\ UNCHANGED devices_held
       ELSE UNCHANGED <<dealloc_attempts, devices_held, wexc>>
    /\ wpc' = "ready"
    /\ UNCHANGED <<pilotVars, chanVars, retries, alloc_calls, sleeps, reserve_client,
                   force_deallocate, func_invoked, max_tries, wcalls>>

\* ---------------------------------------------------------------- client_actor
\* What the remote agent sends in answer to one request: an acknowledgement
\* token, then a result message; any suffix may be missing.
RemoteScripts ==
    {<<"OK", "completed">>, <<"OK", "failed">>, <<"OK", "garbage">>, <<"OK">>,
     <<"NOK">>, <<>>}

AckAcceptedAny(ack) == TRUE

\* The test of the acknowledgement in _perform_action_ws.
AckAccepted(ack) == ack = "OK"

\* PerformActionResponse(**json.loads(action_info)): a response, or the parse or
\* validation error of a message that is not one.
ParseResponse(m) == IF m \in {"completed", "failed"} THEN m ELSE "ParseError"

\* The tail of _perform_action_async: a response in state failed is raised as
\* PerformActionException, an exception of _perform_action_ws propagates.
ActionResult(r) ==
    IF r = "completed" THEN "return"
    ELSE IF r = "failed" THEN ExceptionOf("RemoteFailed")
    ELSE r

otherVars == <<pilotVars, wrapVars>>

\* The callers of _perform_action_ws.
CallKinds == {"action", "screen"}

AckNotOk == "Received ACK != OK"
AckDidNotArrive == "The ack message did not arrive."
NotInitiated == "The Websocket has not been initiated."

RunWithoutWaiting(p) == TRUE

\* loop.run_until_complete(task): a call starts when the one before it has
\* returned or raised.
RunUntilComplete(p) == p = "idle"

\* _get_screen_async after _perform_action_ws: the two handshake errors become
\* GetScreenError with one text, other exceptions propagate, a response without
\* screen_b64 is a GetScreenError.
ScreenResult(r, msg, has_screen) ==
    IF r \in {"completed", "failed"}
    THEN (IF has_screen THEN "return" ELSE "GetScreenError")
    ELSE IF r = "RuntimeError" /\ msg \in {AckDidNotArrive, AckNotOk}
    THEN "GetScreenError"
    ELSE r

\* The text of the exception the caller is given.
ScreenMessage(r, msg) ==
    IF r = "RuntimeError" /\ msg \in {AckDidNotArrive, AckNotOk}
    THEN AckDidNotArrive
    ELSE msg

\* The exceptions backoff.on_exception retries get_screen for (the parse error
\* stands for pydantic.ValidationError).
Retried == {"GetScreenError", "ParseError"}

HandshakeCauses == {"ack_mismatch", "ack_timeout", "result_timeout"}

\* The entry of _perform_action_ws: the per-call counters and the test of
\* global_ws.
EnterWs ==
    /\ ws_calls' = ws_calls + 1
    /\ ws_sent' = 0
    /\ ws_awaits' = 0
    /\ ws_timeouts' = 0
    /\ ws_ack' = "none"
    /\ ws_cause' = IF global_ws THEN "none" ELSE "no_connection"
    /\ ws_origin' = {}
    /\ IF global_ws
       THEN ws_pc' = "send" /\ ws_ret' = "none" /\ ws_msg' = "none"
       ELSE ws_pc' = "done" /\ ws_ret' = "RuntimeError" /\ ws_msg' = NotInitiated

\* perform_action(payload) or get_screen() up to the test of global_ws in
\* _perform_action_ws.
PerformAction ==
    /\ RunUntilComplete(ws_pc)
    /\ ws_calls < MaxActions
    /\ ws_kind' \in CallKinds
    /\ act_ret' = "none"
    /\ EnterWs
    /\ UNCHANGED <<otherVars, global_ws, ws_remote, ws_inbox, ws_seen, ws_tags,
                   ws_in_flight>>

\* await global_ws.send(json.dumps(payload))
WsSend ==
    /\ ws_pc = "send"
    /\ ws_sent' = ws_sent + 1
    /\ \/ /\ \E script \in RemoteScripts :
               /\ ws_remote' = ws_remote \o script
               /\ ws_tags' = ws_tags \o [i \in 1..Len(script) |-> ws_calls]
          /\ ws_in_flight' = ws_in_flight + 1
          /\ ws_pc' = "ack"
          /\ UNCHANGED <<ws_ret, ws_cause>>
       \/ /\ ws_ret' = "ConnectionClosed"
          /\ ws_cause' = "closed"
          /\ ws_pc' = "done"
          /\ UNCHANGED <<ws_remote, ws_tags, ws_in_flight>>
    /\ UNCHANGED <<otherVars, global_ws, ws_inbox, ws_awaits, ws_timeouts, ws_ack,
                   act_ret, ws_calls, ws_kind, ws_msg, ws_seen, ws_origin>>

\* The remote agent's next message arrives on the connection.
RemoteDeliver ==
    /\ ws_remote # <<>>
    /\ ws_inbox' = Append(ws_inbox, Head(ws_remote))
    /\ ws_remote' = Tail(ws_remote)
    /\ UNCHANGED <<otherVars, global_ws, ws_pc, ws_sent, ws_awaits, ws_timeouts,
                   ws_ack, ws_ret, act_ret, ws_calls, ws_kind, ws_msg, ws_cause,
                   ws_seen, ws_tags, ws_origin, ws_in_flight>>

\* ack = await asyncio.wait_for(global_ws.recv(), 90) and the test of ack
WsAwaitAck ==
    /\ ws_pc = "ack"
    /\ ws_awaits' = ws_awaits + 1
    /\ \/ /\ ws_inbox # <<>>
          /\ ws_inbox' = Tail(ws_inbox)
          /\ ws_tags' = Tail(ws_tags)
          /\ ws_origin' = ws_origin \cup {Head(ws_tags)}
          /\ ws_ack' = Head(ws_inbox)
          /\ IF AckAccepted(Head(ws_inbox))
             THEN /\ ws_pc' = "result"
                  /\ UNCHANGED <<ws_ret, ws_msg, ws_cause, ws_in_flight>>
             ELSE /\ ws_pc' = "done" /\ ws_ret' = "RuntimeError"
                  /\ ws_msg' = AckNotOk
                  /\ ws_cause' = "ack_mismatch"
                  /\ ws_in_flight' = ws_in_flight - 1
          /\ UNCHANGED ws_timeouts
       \/ /\ ws_inbox = <<>>
          /\ ws_timeouts' = ws_timeouts + 1
          /\ ws_ret' = "RuntimeError"
          /\ ws_msg' = AckDidNotArrive
          /\ ws_cause' = "ack_timeout"
          /\ ws_in_flight' = ws_in_flight - 1
          /\ ws_pc' = "done"
          /\ UNCHANGED <<ws_inbox, ws_ack, ws_tags, ws_origin>>
       \/ /\ ws_inbox = <<>>
          /\ ws_ret' = "ConnectionClosed"
          /\ ws_cause' = "closed"
          /\ ws_in_flight' = ws_in_flight - 1
          /\ ws_pc' = "done"
          /\ UNCHANGED <<ws_inbox, ws_ack, ws_timeouts, ws_msg, ws_tags, ws_origin>>
    /\ UNCHANGED <<otherVars, global_ws, ws_remote, ws_sent, act_ret, ws_calls,
                   ws_kind, ws_seen>>

\* action_info = await asyncio.wait_for(global_ws.recv(), 90) and the return
WsAwaitResult ==
    /\ ws_pc = "result"
    /\ ws_awaits' = ws_awaits + 1
    /\ \/ /\ ws_inbox # <<>>
          /\ ws_inbox' = Tail(ws_inbox)
          /\ ws_tags' = Tail(ws_tags)
          /\ ws_origin' = ws_origin \cup {Head(ws_tags)}
          /\ ws_ret' = ParseResponse(Head(ws_inbox))
          /\ ws_cause' = "result"
          /\ UNCHANGED <<ws_timeouts, ws_msg>>
       \/ /\ ws_inbox = <<>>
          /\ ws_timeouts' = ws_timeouts + 1
          /\ ws_ret' = "RuntimeError"
          /\ ws_msg' = AckDidNotArrive
          /\ ws_cause' = "result_timeout"
          /\ UNCHANGED <<ws_inbox, ws_tags, ws_origin>>
       \/ /\ ws_inbox = <<>>
          /\ ws_ret' = "ConnectionClosed"
          /\ ws_cause' = "closed"
          /\ UNCHANGED <<ws_inbox, ws_timeouts, ws_msg, ws_tags, ws_origin>>
    /\ ws_in_flight' = ws_in_flight - 1
    /\ ws_pc' = "done"
    /\ UNCHANGED <<otherVars, global_ws, ws_remote, ws_sent, ws_ack, act_ret, ws_calls,
                   ws_kind, ws_seen>>

\* The failure the caller of perform_action or get_screen is given.
Failure(kind, cause, type, msg) ==
    [kind |-> kind, cause |-> cause, type |-> type,
     msg |-> IF kind = "screen" THEN ScreenMessage(ws_ret, msg) ELSE msg]

\* _perform_action_async or _get_screen_async after _perform_action_ws;
\* perform_action returns or raises, get_screen returns, raises or is called
\* again by backoff.on_exception.
PerformActionEnd ==
    /\ ws_pc = "done"
    /\ \E has_screen \in (IF ws_kind = "screen" /\ ws_ret \in {"completed", "failed"}
                          THEN BOOLEAN ELSE {TRUE}) :
         LET out == IF ws_kind = "screen"
                    THEN ScreenResult(ws_ret, ws_msg, has_screen)
                    ELSE ActionResult(ws_ret)
         IN
         \/ /\ act_ret' = out
            /\ ws_pc' = "idle"
            /\ ws_seen' = IF ws_cause \in HandshakeCauses
                          THEN ws_seen \cup {Failure(ws_kind, ws_cause, out, ws_msg)}
                          ELSE ws_seen
            /\ UNCHANGED <<ws_sent, ws_awaits, ws_timeouts, ws_ack, ws_ret, ws_calls,
                           ws_msg, ws_cause, ws_origin>>
         \/ /\ ws_kind = "screen"
            /\ out \in Retried
            /\ ws_calls < MaxActions
            /\ EnterWs
            /\ UNCHANGED <<act_ret, ws_seen>>
    /\ UNCHANGED <<otherVars, global_ws, ws_remote, ws_inbox, ws_kind, ws_tags,
                   ws_in_flight>>

\* ---------------------------------------------------------------- specification
\* The class attributes of ScreenPilot as the class body sets them.
ClassDefaults ==
    /\ acted_since_state_eval = FALSE
    /\ ai_recovery_agent = FALSE
    /\ latest_feedback = "none"
    /\ current_state = "none"
    /\ exit_reason = "none"
    /\ final_state = "none"
    /\ mode = "planned"
    /\ next_target_state = "none"
    /\ runtime_error_details = FALSE
    /\ state_history = <<>>
    /\ exc = "none"

NoFrames ==
    /\ rec_scenario = "none" /\ rec_attempts = 0 /\ attempts_made = 0 /\ rec_ret = "none"
    /\ rec_action = NoRequest
    /\ guard_eval = {} /\ force_close = "none" /\ handled = NoRequest
    /\ runs = 0 /\ classified = <<>> /\ executed = <<>>
    /\ handled_runtime_error = FALSE /\ invoked = {} /\ scenario_env = TRUE
    /\ regs = 0 /\ reg_error = FALSE /\ reg_undefined = FALSE

WrapperOff ==
    /\ wpc = "off" /\ retries = 0 /\ alloc_calls = 0 /\ sleeps = 0 /\ devices_held = 0
    /\ dealloc_attempts = 0 /\ reserve_client = FALSE /\ force_deallocate = FALSE
    /\ func_invoked = FALSE /\ wexc = "none" /\ max_tries = 0 /\ wcalls = 0

ChannelOff ==
    /\ global_ws = FALSE /\ ws_pc = "off" /\ ws_remote = <<>> /\ ws_inbox = <<>>
    /\ ws_sent = 0 /\ ws_awaits = 0 /\ ws_timeouts = 0 /\ ws_ack = "none"
    /\ ws_ret = "none" /\ act_ret = "none" /\ ws_calls = 0
    /\ ws_kind = "none" /\ ws_msg = "none" /\ ws_cause = "none" /\ ws_seen = {}
    /\ ws_tags = <<>> /\ ws_origin = {} /\ ws_in_flight = 0

DefaultConfig ==
    /\ ai_recovery = TRUE
    /\ ai_recovery_agent_factory = TRUE
    /\ ai_recovery_attempts = MaxAttempts
    /\ tolerate_unplanned_transitions = MaxTol
    /\ tolerate_repeat_transitions = MaxTol
    /\ tolerate_repeat_states = MaxTol
    /\ enable_force_close_app_process = FALSE
    /\ process_name = FALSE

InitRun ==
    /\ \E g \in Graphs : nodes = g.nodes /\ edges = g.edges
    /\ pc = "idle"
    /\ ai_recovery \in BOOLEAN
    /\ ai_recovery_agent_factory \in BOOLEAN
    /\ ai_recovery_attempts \in 1..MaxAttempts
    /\ tolerate_unplanned_transitions \in 0..MaxTol
    /\ tolerate_repeat_transitions = 0      \* SpecScan varies the two repeat
    /\ tolerate_repeat_states = 0           \* tolerances
    /\ enable_force_close_app_process = FALSE
    /\ process_name = FALSE
    /\ ClassDefaults
    /\ transition_history = <<>>
    /\ NoFrames
    /\ WrapperOff
    /\ ChannelOff

Init == InitRun

Next ==
    \/ Run
    \/ FindAntiPatterns
    \/ EvaluateState
    \/ EvaluateGoal
    \/ ErrorStateHandling
    \/ SelectTransition
    \/ ExecuteTransition
    \/ RecoveryStep
    \/ HandleException
    \/ EnsureAllowedEndState
    \/ EndStateCheck
    \/ Cleanup

Spec == Init /\ [][Next]_vars

\* run() calls on the graph with guarded edges, AI recovery disabled.
InitSel ==
    /\ nodes = GuardedGraph.nodes /\ edges = GuardedGraph.edges
    /\ pc = "idle"
    /\ ai_recovery = FALSE
    /\ ai_recovery_agent_factory = TRUE
    /\ ai_recovery_attempts = 1
    /\ tolerate_unplanned_transitions = 0
    /\ tolerate_repeat_transitions = MaxSelTol
    /\ tolerate_repeat_states = MaxSelTol
    /\ enable_force_close_app_process = FALSE
    /\ process_name = FALSE
    /\ ClassDefaults
    /\ transition_history = <<>>
    /\ NoFrames
    /\ WrapperOff
    /\ ChannelOff

SpecSel == InitSel /\ [][Next]_vars

\* run() calls on the graph in which 'Error' is a registered state, AI recovery
\* enabled, one unplanned transition tolerated.
InitErr ==
    /\ nodes = ErrorGraph.nodes /\ edges = ErrorGraph.edges
    /\ pc = "idle"
    /\ ai_recovery = TRUE
    /\ ai_recovery_agent_factory = TRUE
    /\ ai_recovery_attempts = 1
    /\ tolerate_unplanned_transitions = 1
    /\ tolerate_repeat_transitions = 0
    /\ tolerate_repeat_states = 0
    /\ enable_force_close_app_process = FALSE
    /\ process_name = FALSE
    /\ ClassDefaults
    /\ transition_history = <<>>
    /\ NoFrames
    /\ WrapperOff
    /\ ChannelOff

SpecErr == InitErr /\ [][Next]_vars

\* run() calls on the linear graph with repeats tolerated and one unplanned
\* transition tolerated, AI recovery disabled.
InitCnt ==
    /\ nodes = LinearGraph.nodes /\ edges = LinearGraph.edges
    /\ pc = "idle"
    /\ ai_recovery = FALSE
    /\ ai_recovery_agent_factory = TRUE
    /\ ai_recovery_attempts = 1
    /\ tolerate_unplanned_transitions = 1
    /\ tolerate_repeat_transitions = MaxCntTol
    /\ tolerate_repeat_states = MaxCntTol
    /\ enable_force_close_app_process = FALSE
    /\ process_name = FALSE
    /\ ClassDefaults
    /\ transition_history = <<>>
    /\ NoFrames
    /\ WrapperOff
    /\ ChannelOff

SpecCnt == InitCnt /\ [][Next]_vars

\* The classifier of the loop graph answers 'Start' or 'Error'.
LoopAnswers == 2

\* The largest repeat-state tolerance below HistoryMaxLen - LoopAnswers.
LiveTol == HistoryMaxLen - LoopAnswers - 1

\* run() calls on the loop graph: no repeat-state tolerance, or the largest one
\* below the history length minus the number of classifier answers; the other
\* two tests of the scan never fire.
InitLive ==
    /\ nodes = LoopGraph.nodes /\ edges = LoopGraph.edges
    /\ pc = "idle"
    /\ tolerate_repeat_states \in {0, LiveTol}
    /\ ai_recovery \in BOOLEAN
    /\ ai_recovery => tolerate_repeat_states = 0
    /\ ai_recovery_agent_factory = TRUE
    /\ ai_recovery_attempts = 1
    /\ tolerate_unplanned_transitions = 0
    /\ tolerate_repeat_transitions = HistoryMaxLen
    /\ enable_force_close_app_process = FALSE
    /\ process_name = FALSE
    /\ ClassDefaults
    /\ transition_history = <<>>
    /\ NoFrames
    /\ WrapperOff
    /\ ChannelOff

\* Every call made by run() returns or raises, and the caller starts the runs
\* it is going to make: a step is taken whenever one is possible.
SpecLive == InitLive /\ [][Next]_vars /\ WF_vars(Next)

\* One call of _attempt_ai_recovery, step by step, in the first run on the linear
\* graph: from the loop after the classifier answered 'Error' in the first
\* iteration, or from the wrapper after the classifier answered Start and
\* transition t1 raised RuntimeError.
InitRec ==
    /\ nodes = LinearGraph.nodes /\ edges = LinearGraph.edges
    /\ pc = "recovery"
    /\ ai_recovery_agent_factory \in BOOLEAN
    /\ ai_recovery_attempts \in 1..MaxAttempts
    /\ tolerate_unplanned_transitions = 0
    /\ tolerate_repeat_transitions = 0
    /\ tolerate_repeat_states = 0
    /\ enable_force_close_app_process = FALSE
    /\ process_name = FALSE
    /\ ai_recovery_agent = ai_recovery_agent_factory
    /\ latest_feedback = "none"
    /\ exit_reason = "none"
    /\ final_state = "none"
    /\ mode = "planned"
    /\ exc = "none"
    /\ runs = 1
    /\ attempts_made = 0
    /\ rec_action = NoRequest
    /\ \/ /\ ai_recovery = TRUE
          /\ rec_scenario = "unexpected_state"
          /\ invoked = {"unexpected_state"}
          /\ rec_attempts = ai_recovery_attempts
          /\ rec_ret = "loop"
          /\ current_state = ErrorState
          /\ state_history = <<ErrorState>>
          /\ classified = <<ErrorState>>
          /\ transition_history = <<>>
          /\ executed = <<>>
          /\ next_target_state = "none"
          /\ acted_since_state_eval = FALSE
          /\ runtime_error_details = FALSE
          /\ handled_runtime_error = FALSE
          /\ scenario_env = TRUE
       \/ /\ ai_recovery \in BOOLEAN
          /\ rec_scenario = "runtime_error"
          /\ invoked = {"runtime_error"}
          /\ rec_attempts = WrapperRecoveryAttempts
          /\ rec_ret = "wrapper"
          /\ current_state = "Start"
          /\ state_history = <<"Start">>
          /\ classified = <<"Start">>
          /\ transition_history = <<"t1">>
          /\ executed = <<"t1">>
          /\ next_target_state = "Middle"
          /\ acted_since_state_eval = TRUE
          /\ runtime_error_details = TRUE
          /\ handled_runtime_error = TRUE
          /\ scenario_env = FALSE
    /\ guard_eval = {} /\ force_close = "none" /\ handled = NoRequest
    /\ regs = 0 /\ reg_error = FALSE /\ reg_undefined = FALSE
    /\ WrapperOff
    /\ ChannelOff

NextRec == RecoveryRequest \/ RecoveryHandle

SpecRec == InitRec /\ [][NextRec]_vars

\* Registration at import time, starting from the empty graph.
InitReg ==
    /\ nodes = NoNodes /\ edges = <<>>
    /\ pc = "config"
    /\ DefaultConfig
    /\ ClassDefaults
    /\ transition_history = <<>>
    /\ NoFrames
    /\ WrapperOff
    /\ ChannelOff

NextReg == RegisterState \/ RegisterTransition

SpecReg == InitReg /\ [][NextReg]_vars

\* The scan at the top of the iteration that follows the transitions th, on the
\* linear graph: each transition was selected in its source state and returned,
\* the goal hook never raised, and every earlier scan passed.
ScanFuncs == {"t1", "t2"}

Histories(n) == UNION {[1..k -> ScanFuncs] : k \in 0..n}

SourceOf(f) == IF f = "t1" THEN "Start" ELSE "Middle"

TargetOf(f) == IF f = "t1" THEN "Middle" ELSE "End"

SourcesOf(th) == [i \in 1..Len(th) |-> SourceOf(th[i])]

RECURSIVE EdgesAfter(_, _)
EdgesAfter(th, k) ==
    IF k <= 1 THEN LinearGraph.edges
    ELSE AddEdge(EdgesAfter(th, k - 1),
                 ActualEdge(SourcesOf(SubSeq(th, 1, k)), SubSeq(th, 1, k - 1),
                            SourceOf(th[k])))

ScanPassed(th, k, tu, tt, ts) ==
    AntiPattern(EdgesAfter(th, k), SubSeq(th, 1, k), SourcesOf(SubSeq(th, 1, k)),
                tu, tt, ts) = "none"

InitScan ==
    /\ nodes = LinearGraph.nodes
    /\ pc = "scan"
    /\ ai_recovery = FALSE
    /\ ai_recovery_agent_factory = TRUE
    /\ ai_recovery_attempts = MaxAttempts
    /\ tolerate_unplanned_transitions \in {0, HistoryMaxLen}
    /\ tolerate_repeat_transitions \in 0..MaxScanTol
    /\ tolerate_repeat_states \in {0, HistoryMaxLen}
    /\ enable_force_close_app_process \in BOOLEAN
    /\ process_name \in BOOLEAN
    /\ \E th \in Histories(MaxHist) :
         /\ \A k \in 0..(Len(th) - 1) :
               ScanPassed(th, k, tolerate_unplanned_transitions,
                          tolerate_repeat_transitions, tolerate_repeat_states)
         /\ transition_history = th
         /\ executed = th
         /\ state_history = SourcesOf(th)
         /\ classified = SourcesOf(th)
         /\ edges = EdgesAfter(th, Len(th))
         /\ acted_since_state_eval = (th # <<>>)
         /\ current_state = IF th = <<>> THEN "none" ELSE SourceOf(th[Len(th)])
         /\ next_target_state = IF th = <<>> THEN "none" ELSE TargetOf(th[Len(th)])
    /\ ai_recovery_agent = FALSE
    /\ latest_feedback = "none"
    /\ exit_reason = "none"
    /\ final_state = "none"
    /\ mode = "planned"
    /\ runtime_error_details = FALSE
    /\ exc = "none"
    /\ rec_scenario = "none" /\ rec_attempts = 0 /\ attempts_made = 0 /\ rec_ret = "none"
    /\ rec_action = NoRequest
    /\ guard_eval = {} /\ force_close = "none" /\ handled = NoRequest
    /\ runs = 1
    /\ handled_runtime_error = FALSE /\ invoked = {} /\ scenario_env = TRUE
    /\ regs = 0 /\ reg_error = FALSE /\ reg_undefined = FALSE
    /\ WrapperOff
    /\ ChannelOff

NextScan == FindAntiPatterns

SpecScan == InitScan /\ [][NextScan]_vars

\* The gui_automation wrapper around a decorated function.
InitAlloc ==
    /\ nodes = LinearGraph.nodes /\ edges = LinearGraph.edges
    /\ pc = "idle"
    /\ DefaultConfig
    /\ ClassDefaults
    /\ transition_history = <<>>
    /\ NoFrames
    /\ wpc = "ready" /\ retries = 0 /\ alloc_calls = 0 /\ sleeps = 0
    /\ devices_held = 0 /\ dealloc_attempts = 0 /\ force_deallocate = FALSE
    /\ func_invoked = FALSE /\ wexc = "none" /\ wcalls = 0
    /\ reserve_client \in BOOLEAN
    /\ max_tries \in 0..MaxTriesBound
    /\ ChannelOff

NextAlloc ==
    \/ WrapperCall
    \/ AllocateAttempt
    \/ AllocateSleep
    \/ Connect
    \/ CallFunc
    \/ WrapperFinally

SpecAlloc == InitAlloc /\ [][NextAlloc]_vars

\* Calls of perform_action on the connection the wrapper opened (or failed to).
InitWs ==
    /\ nodes = LinearGraph.nodes /\ edges = LinearGraph.edges
    /\ pc = "idle"
    /\ DefaultConfig
    /\ ClassDefaults
    /\ transition_history = <<>>
    /\ NoFrames
    /\ WrapperOff
    /\ global_ws \in BOOLEAN
    /\ ws_pc = "idle" /\ ws_remote = <<>> /\ ws_inbox = <<>>
    /\ ws_sent = 0 /\ ws_awaits = 0 /\ ws_timeouts = 0 /\ ws_ack = "none"
    /\ ws_ret = "none" /\ act_ret = "none" /\ ws_calls = 0
    /\ ws_kind = "none" /\ ws_msg = "none" /\ ws_cause = "none" /\ ws_seen = {}
    /\ ws_tags = <<>> /\ ws_origin = {} /\ ws_in_flight = 0

NextWs ==
    \/ PerformAction
    \/ WsSend
    \/ RemoteDeliver
    \/ WsAwaitAck
    \/ WsAwaitResult
    \/ PerformActionEnd

SpecWs == InitWs /\ [][NextWs]_vars

\* ---------------------------------------------------------------- properties
AfterRun == pc = "idle" /\ runs >= 1

ActualEdges(es) == {i \in 1..Len(es) : es[i].mode = "actual"}

IsPrefix(a, b) == Len(a) <= Len(b) /\ \A i \in 1..Len(a) : a[i] = b[i]

LoopPcs == {"scan", "eval", "goal", "errcheck", "select", "exec"}

C2_UnambiguousEdges ==
    /\ \A u \in RegEndpoints, m \in Modes :
         LET out == {i \in 1..Len(edges) : edges[i].u = u /\ edges[i].mode = m} IN
         \/ Cardinality(out) <= 1
         \/ \A i \in out : edges[i].cond
    /\ reg_error =>
         \E u \in RegEndpoints, m \in Modes, i \in 1..Len(edges) :
             edges[i].u = u /\ edges[i].mode = m

\* C2 witness: a registration was rejected while two guarded edges of the same
\* mode leave the same state.
C2_Witness ==
    /\ reg_error
    /\ \E i, j \in 1..Len(edges) :
         /\ i # j /\ edges[i].u = edges[j].u /\ edges[i].mode = edges[j].mode
         /\ edges[i].cond /\ edges[j].cond

ScenarioGraph == nodes = LinearGraph.nodes /\ RemoveActualEdges(edges) = LinearGraph.edges

ScenarioAnswers == <<"Start", "Middle", "End">>

\* C3: on the graph Start -> Middle -> End with AI recovery disabled, while the
\* classifier answers Start, Middle, End, the transitions return and the goal
\* hook raises the success signal at End, nothing is raised; the run ends by
\* returning the success signal after exactly t1 then t2, with final state End.
C3_LinearScenario ==
    (/\ runs >= 1 /\ ScenarioGraph /\ ~ai_recovery /\ scenario_env
     /\ IsPrefix(classified, ScenarioAnswers)) =>
        /\ exc = "none" \/ (pc = "except" /\ exc = "SuccessfulCompletion")
        /\ exit_reason \in {"none", "SuccessfulCompletion"}
        /\ IsPrefix(executed, <<"t1", "t2">>)
        /\ pc = "idle" =>
             /\ classified = ScenarioAnswers
             /\ executed = <<"t1", "t2">>
             /\ exit_reason = "SuccessfulCompletion"
             /\ final_state = "End"

C3_Witness ==
    /\ pc = "idle" /\ runs >= 1 /\ ScenarioGraph /\ ~ai_recovery /\ scenario_env
    /\ classified = ScenarioAnswers
    /\ executed = <<"t1", "t2">>
    /\ exit_reason = "SuccessfulCompletion"

\* C4: once a transition has raised a RuntimeError, recovery has been invoked
\* with scenario 'runtime_error', the run loop continues in mode 'rollback', and
\* the RuntimeError is not what run() raises.
C4_RuntimeErrorHandled ==
    handled_runtime_error =>
        /\ "runtime_error" \in invoked
        /\ pc \in LoopPcs => mode = "rollback"
        /\ exc # "RuntimeError"

\* C5: when the classifier has returned 'Error' and AI recovery is enabled, the
\* loop invokes recovery with scenario 'unexpected_state'; no transition is
\* selected, recorded or executed before the next iteration starts.
C5_ErrorStateRecovers ==
    /\ [](pc \in {"select", "exec"} => ~(current_state = ErrorState /\ ai_recovery))
    /\ [][(pc = "errcheck" /\ current_state = ErrorState /\ ai_recovery) =>
            /\ pc' = "recovery"
            /\ rec_scenario' = "unexpected_state"
            /\ "unexpected_state" \in invoked'
            /\ UNCHANGED <<transition_history, executed, next_target_state>>]_vars
    /\ [][(pc = "recovery" /\ rec_ret = "loop") =>
            /\ pc' \in {"recovery", "scan", "except"}
            /\ UNCHANGED <<transition_history, executed, next_target_state>>]_vars

\* C5 witness: recovery for an unexpected state has returned to the loop, which
\* is at the top of the next iteration.
C5_Witness ==
    /\ pc = "scan" /\ current_state = ErrorState /\ ai_recovery
    /\ "unexpected_state" \in invoked
    /\ Len(classified) >= 2 /\ Len(executed) >= 1

PlannedPair(es, a, b) ==
    \E i \in 1..Len(es) : es[i].mode = "planned" /\ es[i].u = a /\ es[i].v = b

NeverDeviated ==
    \A i \in 1..(Len(classified) - 1) : PlannedPair(edges, classified[i], classified[i + 1])

\* C7: while every movement from one classified state to the next is along a
\* planned edge, no recorded actual edge is unplanned and the
\* unplanned-transitions failure is not raised.
C7_NoDeviationNoUnplanned ==
    (runs >= 1 /\ NeverDeviated) =>
        /\ \A i \in ActualEdges(edges) : PlannedPair(edges, edges[i].u, edges[i].v)
        /\ exc # "UnplannedTransitionsError"
        /\ exit_reason # "UnplannedTransitionsError"

C7_Witness ==
    /\ pc = "eval" /\ NeverDeviated /\ Len(classified) >= 3
    /\ Cardinality(ActualEdges(edges)) >= 2

\* C9: every run() that has ended has returned its terminal outcome.
C9_AlwaysReturnsOutcome ==
    AfterRun => (exc = "none" /\ exit_reason # "none")

ScanDone == pc \in {"eval", "except"}

MaxMultiplicity(h) ==
    IF h = <<>> THEN 0
    ELSE CHOOSE n \in 1..Len(h) :
           /\ \E f \in ScanFuncs : CountIn(h, f) = n
           /\ \A f \in ScanFuncs : CountIn(h, f) <= n

\* C6 as stated: with tolerance T, at the repeated-transitions test of the scan
\* a history in which a transition occurs T+2 times raises the
\* repeated-transitions failure, and one in which the most frequent transition
\* occurs T+1 times does not.
C6_RepeatThresholdAsStated ==
    ScanDone =>
        /\ (/\ Cardinality(FindUnplannedTransitions(edges))
                  <= tolerate_unplanned_transitions
            /\ \E f \in ScanFuncs :
                  CountIn(transition_history, f) = tolerate_repeat_transitions + 2)
              => exc = "RepeatTransitions"
        /\ MaxMultiplicity(transition_history) = tolerate_repeat_transitions + 1
              => exc # "RepeatTransitions"

\* C6 amended: at the repeated-transitions test of the scan a history in which
\* a transition occurs T+2 times raises the repeated-transitions failure; a
\* history in which one transition occurs T+1 times and no other transition
\* occurs more than once does not.
C6_RepeatThreshold ==
    ScanDone =>
        /\ (/\ Cardinality(FindUnplannedTransitions(edges))
                  <= tolerate_unplanned_transitions
            /\ \E f \in ScanFuncs :
                  CountIn(transition_history, f) = tolerate_repeat_transitions + 2)
              => exc = "RepeatTransitions"
        /\ (\E f \in ScanFuncs :
              /\ CountIn(transition_history, f) = tolerate_repeat_transitions + 1
              /\ \A g \in ScanFuncs \ {f} : CountIn(transition_history, g) <= 1)
              => exc # "RepeatTransitions"

\* C6 witness: with tolerance 1 the scan after t2, t1, t1, t1 raises the
\* repeated-transitions failure (the scan after t2, t1, t1 passed).
C6_Witness ==
    /\ pc = "except" /\ exc = "RepeatTransitions"
    /\ tolerate_repeat_transitions = 1
    /\ transition_history = <<"t2", "t1", "t1", "t1">>

AllocationFailed == wexc \in {"ClientAvailabilityTimeout", "AllocationError"}

\* C8: allocation makes at most max_tries + 1 calls with one sleep between two
\* calls; it raises the availability timeout exactly after max_tries + 1 refused
\* calls and max_tries sleeps; after a failed allocation the function was not
\* invoked, no history was recorded and no deallocation attempted; a granted
\* device is returned without a further sleep.
C8_AllocationRetryBudget ==
    /\ alloc_calls <= max_tries + 1
    /\ sleeps = retries
    /\ wpc = "sleep" => (alloc_calls = sleeps + 1 /\ sleeps < max_tries)
    /\ wexc = "ClientAvailabilityTimeout" =>
         /\ alloc_calls = max_tries + 1
         /\ sleeps = max_tries
    /\ AllocationFailed =>
         /\ wpc = "ready"
         /\ alloc_calls = sleeps + 1
         /\ ~func_invoked
         /\ transition_history = <<>>
         /\ dealloc_attempts = 0
         /\ devices_held = 0
    /\ wpc = "connect" => (devices_held = 1 /\ alloc_calls = sleeps + 1)

C8_Witness ==
    /\ wexc = "ClientAvailabilityTimeout"
    /\ max_tries = 2 /\ sleeps = 2 /\ alloc_calls = 3
    /\ wcalls = 2

WrapperReturned == wpc = "ready" /\ wcalls >= 1

\* C10: a wrapped call holds at most one device and attempts at most one
\* deallocation; when it was granted a device and the caller did not ask to
\* reserve it, deallocation has been attempted by the time the call ends,
\* however it ends.
C10_DeallocationOnEveryExit ==
    /\ devices_held <= 1
    /\ dealloc_attempts <= 1
    /\ dealloc_attempts = 1 => ~AllocationFailed
    /\ (WrapperReturned /\ ~AllocationFailed /\ ~reserve_client) => dealloc_attempts = 1

C10_Witness ==
    /\ WrapperReturned /\ ~reserve_client
    /\ wexc = "WebSocketConnectionFailed"
    /\ dealloc_attempts = 1 /\ devices_held = 0

CompletionPcs == {"ensure", "endcheck", "cleanup"}

\* The completion step is entered from the except clauses only, which every
\* exit of the loop passes, and control returns to the caller from its
\* finally block only.
CompletionOnce ==
    /\ [][pc = "except" => pc' = "ensure"]_vars
    /\ [][(pc' = "ensure" /\ pc # "ensure") => pc = "except"]_vars
    /\ [][(pc \in LoopPcs \/ (pc = "recovery" /\ rec_ret # "exit")) =>
             pc' \in LoopPcs \cup {"recovery", "except"}]_vars
    /\ [][(pc' = "cleanup" /\ pc # "cleanup") =>
             \/ pc \in {"ensure", "endcheck"}
             \/ pc = "recovery" /\ rec_ret = "exit"]_vars
    /\ [][(pc' = "idle" /\ pc # "idle") => pc = "cleanup"]_vars

\* One more evaluation exactly when an action happened since the last one.
ReevaluatedOnce ==
    [][pc = "ensure" =>
         IF acted_since_state_eval
         THEN \/ /\ Len(classified') = Len(classified) + 1
                 /\ current_state' = classified'[Len(classified')]
                 /\ pc' = "endcheck"
              \/ /\ exc' \in {"KeyError", "ClassifierError"}
                 /\ pc' = "cleanup"
                 /\ UNCHANGED <<classified, current_state>>
         ELSE /\ pc' = "endcheck"
              /\ UNCHANGED <<classified, current_state>>]_vars

ExitRecoveryOnlyAtExit ==
    []("exit" \in invoked => pc \in {"recovery", "cleanup", "idle"})

\* C11 as stated: on every exit path of run() the completion step runs exactly
\* once before control returns; the state is evaluated once more if an action
\* happened since the last evaluation, and whenever the resulting current state
\* is not end-allowed, recovery with scenario 'exit' is attempted.
C11_CompletionOnEveryExitAsStated ==
    /\ CompletionOnce
    /\ ReevaluatedOnce
    /\ ExitRecoveryOnlyAtExit
    /\ [][(pc = "endcheck" /\ current_state \notin EndStates(nodes)) =>
             /\ pc' = "recovery"
             /\ rec_scenario' = "exit"
             /\ "exit" \in invoked']_vars

\* C11 amended: as above, but recovery with scenario 'exit' is attempted exactly
\* when the resulting current state is not end-allowed and AI recovery is
\* enabled; otherwise the completion step goes straight to its cleanup.
C11_CompletionOnEveryExit ==
    /\ CompletionOnce
    /\ ReevaluatedOnce
    /\ ExitRecoveryOnlyAtExit
    /\ [][pc = "endcheck" =>
             IF current_state \notin EndStates(nodes) /\ ai_recovery
             THEN /\ pc' = "recovery"
                  /\ rec_scenario' = "exit"
                  /\ "exit" \in invoked'
             ELSE /\ pc' = "cleanup"
                  /\ UNCHANGED invoked]_vars

\* C11 witness: a transition raised an exception that run() does not catch, the
\* state was evaluated once more, was not end-allowed, and recovery with
\* scenario 'exit' is running.
C11_Witness ==
    /\ pc = "recovery" /\ rec_scenario = "exit"
    /\ exc = "PerformActionException"
    /\ Len(classified) = Len(executed) + 1
    /\ current_state \notin EndStates(nodes)

\* C12: a failure of the recovery with scenario 'exit' does not become the
\* exception run() raises: while that recovery runs, the exception in flight
\* (none, when the run has an outcome to return) stays what it was.
C12_ExitRecoveryFailureContained ==
    [][(pc = "recovery" /\ rec_ret = "exit") => exc' = exc]_vars

\* C13: a registration call never changes a state that is already registered.
C13_RegisteredStateImmutable ==
    [][\A n \in DOMAIN nodes : n \in DOMAIN nodes' /\ nodes'[n] = nodes[n]]_vars

\* C14: a register_transition call naming a from-state or to-state that is not
\* registered raises.
C14_UndefinedStateRejected == reg_undefined => reg_error

\* C15: once a business signal has been raised, the loop is not re-entered and
\* run() ends by returning that signal.
C15_BusinessSignalPropagates ==
    exit_reason = "BusinessException" =>
        /\ pc \in CompletionPcs \cup {"recovery", "idle"}
        /\ pc = "recovery" => rec_ret = "exit"
        /\ AfterRun => exc = "none"

\* C16: one perform_action call sends at most one request and awaits at most
\* two messages, the first only after the request was sent, the second only
\* after the acknowledgement 'OK'; a response is returned only after both
\* arrived without a timeout, a timeout fails the call, and without a
\* connection nothing is sent or awaited and the call fails.
C16_RequestAckResult ==
    /\ ws_sent <= 1 /\ ws_awaits <= 2
    /\ (ws_awaits >= 1 \/ ws_pc \in {"ack", "result"}) => ws_sent = 1
    /\ (ws_awaits = 2 \/ ws_pc = "result") => ws_ack = "OK"
    /\ ws_pc = "ack" => (ws_awaits = 0 /\ ws_ack = "none")
    /\ ws_pc = "result" => ws_awaits = 1
    /\ ws_ret \in {"completed", "failed"} =>
         (ws_sent = 1 /\ ws_awaits = 2 /\ ws_ack = "OK" /\ ws_timeouts = 0)
    /\ act_ret \in {"return", "PerformActionException"} =>
         ws_ret \in {"completed", "failed"}
    /\ ws_timeouts >= 1 => (ws_timeouts = 1 /\ ws_ret = "RuntimeError")
    /\ (~global_ws /\ ws_calls >= 1) =>
         (ws_sent = 0 /\ ws_awaits = 0 /\ ws_ret = "RuntimeError")

\* C16 witness: a second call has returned a response after the acknowledgement
\* and the result arrived.
C16_Witness ==
    /\ ws_calls = 2 /\ ws_pc = "idle" /\ act_ret = "return"
    /\ ws_sent = 1 /\ ws_awaits = 2 /\ ws_ack = "OK"

\* C17: when the recovery loop has used up its attempts, an exception leaves
\* _attempt_ai_recovery and ends the run.
C17_RecoveryExhaustionFatal ==
    [][(pc = "recovery" /\ ai_recovery_agent /\ rec_action = NoRequest
          /\ attempts_made >= rec_attempts) =>
          (exc' # "none" /\ pc' \in {"except", "cleanup"})]_vars

\* C18: no transient failure of an action inside a transition is an exception
\* that leaves the transition wrapper and ends the run.
C18_TransientFailuresRecover == \A f \in TransientFailures : exc # ExceptionOf(f)

SelectedEdgeHasMode(m) ==
    \E i \in 1..Len(edges) :
        /\ edges[i].mode = m
        /\ edges[i].u = current_state
        /\ edges[i].v = next_target_state
        /\ edges[i].func = transition_history[Len(transition_history)]

\* C19: the mode becomes 'rollback' only when the recovery after a runtime
\* failure returns to the wrapper; while it is 'rollback' every selected
\* transition is an edge registered with mode 'rollback'; it changes back only
\* in the cleanup of the run, to 'planned', which is its value between runs and
\* at the start of the next run.
C19_RollbackModeSticks ==
    /\ []((pc = "exec" /\ mode = "rollback") => SelectedEdgeHasMode("rollback"))
    /\ [](pc = "idle" => mode = "planned")
    /\ [][(mode' = "rollback" /\ mode # "rollback") =>
             (handled_runtime_error /\ pc = "recovery" /\ rec_ret = "wrapper")]_vars
    /\ [][(mode = "rollback" /\ mode' # "rollback") =>
             (pc = "cleanup" /\ mode' = "planned")]_vars
    /\ [][(pc = "idle" /\ pc' # "idle") => mode' = "planned"]_vars

\* C19 witness: after a runtime failure a rollback transition has been selected
\* in mode 'rollback'.
C19_Witness ==
    /\ pc = "exec" /\ mode = "rollback" /\ handled_runtime_error
    /\ transition_history[Len(transition_history)] = "rb1"
    /\ current_state = "Middle"

\* C20: once the wrapper has re-raised the 'rollback completed' signal, no
\* further iteration of the loop runs and the signal is what the run ends with.
C20_RollbackCompletedTerminal ==
    /\ [](exc = "RollbackCompleted" => (pc \notin LoopPcs /\ handled_runtime_error))
    /\ [][exc = "RollbackCompleted" =>
             (exc' = "RollbackCompleted" \/ (pc = "idle" /\ pc' = "scan"))]_vars
\* ---------------------------------------------------------------- C21
\* The edges leaving s whose mode is m and whose guard is absent or in held.
Qualifying(es, s, m, held) ==
    {i \in 1..Len(es) : /\ es[i].u = s
                        /\ es[i].mode = m
                        /\ (es[i].cond => es[i].func \in held)}

\* C21: a selection step picks the edge that out_edges lists first among the
\* edges leaving the current state whose mode is the run mode and whose guard is
\* absent or held, so never an 'actual' edge or one of the other mode; when the
\* current state is not a node or no edge qualifies it raises ValueError, records
\* no transition and executes none.
C21_SelectionFirstQualifying ==
    [][pc = "select" =>
         LET q == Qualifying(edges, current_state, mode, guard_eval') IN
         IF current_state \notin DOMAIN nodes \/ q = {}
         THEN /\ pc' = "except"
              /\ exc' = "ValueError"
              /\ UNCHANGED <<transition_history, executed, next_target_state>>
         ELSE /\ pc' = "exec"
              /\ \E i \in q :
                    /\ \A j \in q \ {i} : EdgeBefore(edges, i, j)
                    /\ edges[i].mode \in Modes
                    /\ next_target_state' = edges[i].v
                    /\ transition_history' =
                          AppendHistory(transition_history, edges[i].func)]_vars

\* C21 witness: an 'actual' edge leaves Start and, with the guarded edges g0 and
\* g1, precedes the guarded edge g2; only the guard of g2 held and g2 was
\* selected.
C21_Witness ==
    /\ pc = "exec"
    /\ current_state = "Start"
    /\ guard_eval = {"g2"}
    /\ next_target_state = "Middle"
    /\ \E i \in ActualEdges(edges) :
          /\ edges[i].u = "Start"
          /\ \E j \in 1..Len(edges) :
                edges[j].func = "g2" /\ edges[j].mode = "planned"
                /\ EdgeBefore(edges, i, j)

\* ---------------------------------------------------------------- C22
\* The recorded actual edges with no planned edge between their two states.
UnmatchedActual ==
    {i \in ActualEdges(edges) :
        \A j \in 1..Len(edges) :
           edges[j].mode = "planned" =>
              (edges[j].u # edges[i].u \/ edges[j].v # edges[i].v)}

\* C22: when the classifier is about to be called in the loop, the scan of this
\* iteration has passed, so at most tolerance many actual edges are unmatched;
\* and the unplanned-transitions failure is in flight out of the scan only while
\* more than tolerance many are.
C22_ScanBeforeClassifier ==
    /\ pc = "eval" =>
          Cardinality(UnmatchedActual) <= tolerate_unplanned_transitions
    /\ (pc = "except" /\ exc = "UnplannedTransitionsError") =>
          /\ Cardinality(UnmatchedActual) > tolerate_unplanned_transitions
          /\ exit_reason = "UnplannedTransitionsError"

\* C22 witness: after a transition was executed and the classifier named a state
\* its planned edge does not lead to, the next scan raised the failure.
C22_Witness ==
    /\ pc = "except"
    /\ exc = "UnplannedTransitionsError"
    /\ Len(executed) >= 1
    /\ Cardinality(UnmatchedActual) = tolerate_unplanned_transitions + 1

\* ---------------------------------------------------------------- C23
\* The entries of history h whose value occurs in h more than once.
RepeatedEntries(h) == {i \in 1..Len(h) : \E j \in 1..Len(h) : j # i /\ h[j] = h[i]}

\* One of the two earlier tests of the scan fires.
EarlierCheckFires ==
    \/ Cardinality(UnmatchedActual) > tolerate_unplanned_transitions
    \/ Cardinality(RepeatedEntries(transition_history)) > tolerate_repeat_transitions + 1

\* C23: a scan raises the repeated-states failure exactly when more than tolerance
\* many state-history entries hold a state that occurs more than once and
\* neither earlier test fires; the application is force-closed only for that
\* failure and only when force-closing is enabled and a process name is set;
\* when the attempt fails the repeated-states failure is raised all the same.
C23_RepeatStatesAbort ==
    ScanDone =>
        /\ (pc = "except" /\ exc = "RepeatStatesError") <=>
              (/\ Cardinality(RepeatedEntries(state_history)) > tolerate_repeat_states
               /\ ~EarlierCheckFires)
        /\ force_close # "none" =>
              /\ exc = "RepeatStatesError"
              /\ enable_force_close_app_process
              /\ process_name
        /\ force_close = "failed" =>
              /\ pc = "except"
              /\ exc = "RepeatStatesError"
              /\ exit_reason = "RepeatStatesError"

\* C23 witness: the scan found a state repeated, the attempt to force-close the
\* application failed, and the repeated-states failure was raised.
C23_Witness ==
    /\ pc = "except"
    /\ exc = "RepeatStatesError"
    /\ force_close = "failed"
    /\ Cardinality(RepeatedEntries(state_history)) = tolerate_repeat_states + 2

\* ---------------------------------------------------------------- C24
\* C24: every recorded 'actual' edge stands for a transition executed since the
\* evaluation of its source state, so its function is that of a registered
\* transition leaving that state.
C24_ActualEdgeFollowsTransition ==
    \A i \in ActualEdges(edges) :
       \E j \in 1..Len(edges) :
          /\ edges[j].mode \in Modes
          /\ edges[j].func = edges[i].func
          /\ edges[j].u = edges[i].u

\* ---------------------------------------------------------------- C25
\* C25: a failure of the screenshot step is never an exception in flight in
\* run().
C25_ScreenshotFailureContained == exc # "ScreenshotError"

\* ---------------------------------------------------------------- C26
\* A request to the agent is pending or was just answered.
Requested == rec_action # NoRequest

\* C26: in one call of the recovery loop every request to the agent is one
\* attempt and the attempts stay within the limit; one action is handled before
\* the next request; and after an action that executed the call ends without
\* another request.
C26_RequestsWithinLimit ==
    [][pc = "recovery" =>
         /\ (~Requested /\ Requested') =>
               /\ attempts_made' = attempts_made + 1
               /\ attempts_made' <= rec_attempts
         /\ Requested => ~Requested'
         /\ (Requested /\ rec_action.kind = "executed") => pc' # "recovery"]_vars

\* C26 witness: after an attempt that ended with feedback a second request was
\* made and answered with an action that is about to execute.
C26_Witness ==
    /\ pc = "recovery"
    /\ attempts_made = 2
    /\ handled.kind \in FeedbackKinds
    /\ rec_action.kind = "executed"

\* ---------------------------------------------------------------- C27
\* C27: handling an action that fails in one of the three feedback classes
\* stores the feedback of its class and leaves the loop running for the next
\* attempt; handling one that fails with any other exception ends the call.
C27_FailureClasses ==
    [][(pc = "recovery" /\ Requested /\ ~rec_action.interrupt) =>
         /\ rec_action.kind \in FeedbackKinds =>
               /\ pc' = "recovery"
               /\ latest_feedback' = FeedbackOf(rec_action.kind)
         /\ rec_action.kind = "unexpected" => pc' # "recovery"]_vars

\* ---------------------------------------------------------------- C28
\* C28: when an attempt is due and the request yields no action, the call ends
\* in that step with CourseCorrectionImpossible.
C28_NoActionIsFatal ==
    [][(/\ pc = "recovery"
        /\ ai_recovery_agent
        /\ ~Requested
        /\ attempts_made < rec_attempts
        /\ ~Requested') =>
          /\ exc' = "CourseCorrectionImpossible"
          /\ pc' = "except"
          /\ rec_scenario' = "none"]_vars

\* C28 witness: in the call made by the wrapper an attempt ended with feedback,
\* the next request yielded no action and the failure was raised with attempts
\* left.
C28_Witness ==
    /\ pc = "except"
    /\ exc = "CourseCorrectionImpossible"
    /\ handled_runtime_error
    /\ handled.kind \in FeedbackKinds
    /\ ~handled.interrupt

\* ---------------------------------------------------------------- C29
\* C29: once an action with the interrupt flag has been handled, whatever its
\* handling came to, CourseCorrectionImpossible is in flight out of the call.
C29_InterruptIsFatal ==
    handled.interrupt =>
        /\ pc = "except"
        /\ exc = "CourseCorrectionImpossible"
        /\ rec_scenario = "none"

\* C29 witness: the sentinel arrived with the interrupt flag and the failure was
\* raised.
C29_Witness ==
    /\ handled = [kind |-> "NoAction", interrupt |-> TRUE]
    /\ pc = "except"
    /\ exc = "CourseCorrectionImpossible"

\* ---------------------------------------------------------------- C30
\* C30: handling the sentinel without interrupt flag ends the call by a return
\* to the caller, with no exception raised and the acted flag unchanged.
C30_SentinelEndsQuietly ==
    [][(pc = "recovery" /\ Requested /\ rec_action.kind = "NoAction"
           /\ ~rec_action.interrupt) =>
          /\ pc' = "scan"
          /\ exc' = "none"
          /\ rec_scenario' = "none"
          /\ UNCHANGED acted_since_state_eval]_vars

\* ---------------------------------------------------------------- C31
\* C31: once the call of the recovery loop has ended, by a return or by an
\* exception, the agent holds no feedback.
C31_FeedbackResetOnExit == pc # "recovery" => latest_feedback = "none"

\* ---------------------------------------------------------------- C32
\* C32: a caller can tell an acknowledgement mismatch from a timeout: of two
\* failures given to callers of the same function, one for an acknowledgement
\* that was not the success marker and one for a timeout of the
\* acknowledgement or of the result, the exception types or at least the
\* exception texts differ.
C32_HandshakeFailuresDistinct ==
    \A f, g \in ws_seen :
        (/\ f.kind = g.kind
         /\ f.cause = "ack_mismatch"
         /\ g.cause \in {"ack_timeout", "result_timeout"})
        => (f.type # g.type \/ f.msg # g.msg)

\* ---------------------------------------------------------------- C33
\* C33: at most one request is in flight on the connection: whenever a request
\* has been sent, the handshake of every request sent before it has been
\* resolved by a result, an acknowledgement mismatch, a timeout or the loss of
\* the connection.
C33_OneRequestInFlight ==
    /\ ws_in_flight <= 1
    /\ ws_pc \in {"idle", "send", "done"} => ws_in_flight = 0

\* C33 witness: after a call that ended with a timeout, the next call has sent
\* its request and waits for the acknowledgement.
C33_Witness ==
    /\ ws_calls = 2 /\ ws_pc = "ack" /\ ws_sent = 1 /\ ws_in_flight = 1
    /\ \E f \in ws_seen : f.cause \in {"ack_timeout", "result_timeout"}

\* ---------------------------------------------------------------- C35
\* C35: every message a call receives as its acknowledgement or as its result
\* answers the request that this call sent.
C35_ReplyMatchesRequest == ws_origin \subseteq {ws_calls}

\* ---------------------------------------------------------------- C36
\* C36: with reserve_client set, a call of the wrapper that allocated a device
\* leaves out the deallocation exactly when the wrapped function returned
\* normally; when the connection setup or the wrapped function raised, the
\* deallocation is attempted.
C36_ReservedOnlyOnNormalReturn ==
    (WrapperReturned /\ reserve_client /\ ~AllocationFailed) =>
        (dealloc_attempts = 0 <=> (func_invoked /\ wexc = "none"))

\* ---------------------------------------------------------------- C37
\* C37: with ai_recovery disabled no recovery with scenario 'unexpected_state'
\* or 'exit' is invoked in a run, while a RuntimeError caught by the transition
\* wrapper invokes recovery with scenario 'runtime_error' whenever an agent
\* factory is configured, whatever ai_recovery is.
C37_RecoveryGating ==
    /\ ~ai_recovery => invoked \cap {"unexpected_state", "exit"} = {}
    /\ (handled_runtime_error /\ ai_recovery_agent_factory) =>
           "runtime_error" \in invoked

\* ---------------------------------------------------------------- C38
\* C38: an action with the interrupt flag whose action string is not the
\* sentinel is executed first: when its eval succeeded, the action has been
\* performed (an action has happened since the last state evaluation) by the
\* time CourseCorrectionImpossible is raised.
C38_InterruptAfterExecution ==
    (handled.interrupt /\ handled.kind = "executed") =>
        /\ acted_since_state_eval
        /\ exc = "CourseCorrectionImpossible"

\* C38 witness: the loop was entered after an evaluation without any action
\* since; the agent's first action carried the interrupt flag, was executed,
\* and the failure was raised.
C38_Witness ==
    /\ invoked = {"unexpected_state"}
    /\ handled = [kind |-> "executed", interrupt |-> TRUE]
    /\ acted_since_state_eval
    /\ pc = "except" /\ exc = "CourseCorrectionImpossible"

\* ---------------------------------------------------------------- C39
\* C39: when run() has ended, the recorded final state is the last state the
\* classifier returned in that run (none if it returned none); after recovery
\* with scenario 'exit' was invoked there is no further classification, so the
\* final state of such a run is the state that was not end-allowed.
C39_FinalStateIsLastClassified ==
    AfterRun =>
        /\ final_state = IF classified = <<>> THEN "none"
                         ELSE classified[Len(classified)]
        /\ "exit" \in invoked => final_state \notin EndStates(nodes)

\* C39 witness: a run ended after exit recovery executed an action and
\* returned; the final state is the state classified before, not end-allowed.
C39_Witness ==
    /\ AfterRun
    /\ "exit" \in invoked
    /\ acted_since_state_eval
    /\ exc = "none"
    /\ Len(classified) >= 2
    /\ final_state = "Middle"

\* ---------------------------------------------------------------- C40
\* The movements observed so far in this run: the transition executed, the state
\* classified before it and the state classified after it.
Movements ==
    {<<executed[k], classified[k], classified[k + 1]>> : k \in 1..(Len(classified) - 1)}

UnplannedMovement(m) ==
    ~\E j \in 1..Len(edges) :
        edges[j].mode = "planned" /\ edges[j].u = m[2] /\ edges[j].v = m[3]

\* C40: during a run the number of unplanned transitions the scan compares with
\* the tolerance is the number of distinct unplanned movements (transition,
\* from-state, to-state) observed so far, however often each was observed.
C40_UnplannedCountedByKey ==
    pc \notin {"idle"} =>
        Cardinality(FindUnplannedTransitions(edges)) =
            Cardinality({m \in Movements : UnplannedMovement(m)})

\* C40 witness: transition t1 was followed twice by the classification of Start
\* again; t1 was executed a third time and the scan that followed counted one
\* unplanned transition, which is tolerated, so the run goes on.
C40_Witness ==
    /\ pc = "eval"
    /\ Len(classified) = 3
    /\ \A k \in 1..3 : classified[k] = "Start"
    /\ executed = <<"t1", "t1", "t1">>
    /\ Cardinality(FindUnplannedTransitions(edges)) = 1
    /\ tolerate_unplanned_transitions = 1

\* ---------------------------------------------------------------- C34
\* C34: with a classifier that answers from LoopAnswers states and a repeat-state
\* tolerance below HistoryMaxLen - LoopAnswers, every run() that has started
\* ends, and the loop of a run evaluates the state at most HistoryMaxLen times
\* (the completion step may evaluate it once more).
C34_RunTerminates ==
    /\ [](Len(classified) <= HistoryMaxLen + 1)
    /\ [](pc \in LoopPcs => Len(classified) <= HistoryMaxLen)
    /\ (pc # "idle") ~> (pc = "idle")

\* C34 witness: with the largest tolerance the scan stopped the run after
\* LiveTol + 1 evaluations of the same state, with the repeated-states failure.
C34_Witness ==
    /\ tolerate_repeat_states = LiveTol
    /\ pc = "except" /\ exc = "RepeatStatesError"
    /\ Len(classified) = LiveTol + 1
    /\ \A k \in 1..Len(classified) : classified[k] = "Start"

====
